---- MODULE Spec2Model ----
(***************************************************************************)
(* Wikipedia Music Tree: the mention counter and matrix builder of         *)
(* code/build_matrix_from_raw_data.py and the subgraph extractor of        *)
(* code/build_graph_mentions_to_root.py.                                   *)
(*                                                                         *)
(* A Python str is a sequence of one-character strings, so that count,     *)
(* split, join, re.sub and str.contains are computed character by          *)
(* character as Python computes them.                                      *)
(***************************************************************************)
EXTENDS Integers, Sequences, FiniteSets, TLC

(***************************************************************************)
(* Python string primitives                                                *)
(***************************************************************************)

\* s[i : i + len(p)] == p
MatchAt(s, p, i) ==
    /\ i >= 1
    /\ i + Len(p) - 1 <= Len(s)
    /\ \A k \in 1..Len(p) : s[i + k - 1] = p[k]

\* p in s
Contains(s, p) == \E i \in 1..(Len(s) + 1) : MatchAt(s, p, i)

RECURSIVE CountFrom(_, _, _)
CountFrom(s, p, i) ==
    IF i + Len(p) - 1 > Len(s) THEN 0
    ELSE IF MatchAt(s, p, i) THEN 1 + CountFrom(s, p, i + Len(p))
    ELSE CountFrom(s, p, i + 1)

\* s.count(p): the non-overlapping occurrences, scanned from the left;
\* the empty pattern occurs len(s) + 1 times.
StrCount(s, p) == IF Len(p) = 0 THEN Len(s) + 1 ELSE CountFrom(s, p, 1)

\* The position of the first character c at or after i, or 0.
IndexFrom(s, c, i) ==
    IF \E j \in i..Len(s) : s[j] = c
    THEN CHOOSE j \in i..Len(s) : s[j] = c /\ \A k \in i..(j - 1) : s[k] # c
    ELSE 0

\* s.split(sep, 1): one piece when sep does not occur, else two.
SplitOnce(s, sep) ==
    LET j == IndexFrom(s, sep, 1)
    IN  IF j = 0 THEN <<s>>
        ELSE <<SubSeq(s, 1, j - 1), SubSeq(s, j + 1, Len(s))>>

RECURSIVE SplitFrom(_, _, _)
SplitFrom(s, sep, i) ==
    LET j == IndexFrom(s, sep, i)
    IN  IF j = 0 THEN <<SubSeq(s, i, Len(s))>>
        ELSE <<SubSeq(s, i, j - 1)>> \o SplitFrom(s, sep, j + 1)

\* s.split(sep) and s.rsplit(sep) without maxsplit: the same list of pieces.
Split(s, sep) == SplitFrom(s, sep, 1)

RECURSIVE Join(_, _)
\* sep.join(pieces)
Join(sep, pieces) ==
    IF Len(pieces) = 0 THEN <<>>
    ELSE IF Len(pieces) = 1 THEN pieces[1]
    ELSE pieces[1] \o <<sep>> \o Join(sep, Tail(pieces))

\* str.lower() on the characters the model uses.
LowerChar(c) ==
    CASE c = "A" -> "a" [] c = "B" -> "b" [] c = "K" -> "k"
      [] c = "S" -> "s" [] c = "T" -> "t" [] OTHER -> c

Lower(s) == [k \in 1..Len(s) |-> LowerChar(s[k])]

RECURSIVE DigitsOf(_)
DigitsOf(n) ==
    LET d == <<"0", "1", "2", "3", "4", "5", "6", "7", "8", "9">>
    IN  IF n < 10 THEN <<d[n + 1]>> ELSE DigitsOf(n \div 10) \o <<d[(n % 10) + 1]>>

\* str(n) of a count, which is never negative.
Str(n) == DigitsOf(n)

\* The code point of a character: list.sort() orders names by it.
Ord(c) ==
    CASE c = " " -> 32 [] c = "(" -> 40 [] c = ")" -> 41 [] c = "." -> 46
      [] c = "0" -> 48 [] c = "1" -> 49 [] c = "2" -> 50 [] c = "3" -> 51
      [] c = "4" -> 52 [] c = "5" -> 53 [] c = "6" -> 54 [] c = "7" -> 55
      [] c = "8" -> 56 [] c = "9" -> 57 [] c = ":" -> 58 [] c = ";" -> 59
      [] c = "A" -> 65 [] c = "B" -> 66 [] c = "K" -> 75 [] c = "S" -> 83
      [] c = "T" -> 84 [] c = "[" -> 91 [] c = "]" -> 93 [] c = "a" -> 97
      [] c = "b" -> 98 [] c = "e" -> 101 [] c = "h" -> 104 [] c = "k" -> 107
      [] c = "m" -> 109 [] c = "o" -> 111 [] c = "p" -> 112 [] c = "s" -> 115
      [] c = "t" -> 116 [] c = "|" -> 124 [] OTHER -> 0

\* a < b for Python strings
StrLess(a, b) ==
    \/ /\ Len(a) < Len(b)
       /\ \A k \in 1..Len(a) : a[k] = b[k]
    \/ \E i \in 1..Len(a) :
          /\ i <= Len(b)
          /\ \A k \in 1..(i - 1) : a[k] = b[k]
          /\ Ord(a[i]) < Ord(b[i])

RECURSIVE SortedSeq(_)
\* The names of a set in ascending order, as list.sort() leaves them.
SortedSeq(S) ==
    IF S = {} THEN <<>>
    ELSE LET m == CHOOSE x \in S : \A y \in S \ {x} : StrLess(x, y)
         IN  <<m>> \o SortedSeq(S \ {m})

\* The position of the first parenthesis at or after i, or 0.
NextParen(s, i) ==
    IF \E j \in i..Len(s) : s[j] \in {"(", ")"}
    THEN CHOOSE j \in i..Len(s) :
            s[j] \in {"(", ")"} /\ \A k \in i..(j - 1) : s[k] \notin {"(", ")"}
    ELSE 0

RECURSIVE StripInnerFrom(_, _)
StripInnerFrom(s, i) ==
    IF i > Len(s) THEN <<>>
    ELSE IF s[i] = "(" /\ NextParen(s, i + 1) # 0 /\ s[NextParen(s, i + 1)] = ")"
         THEN StripInnerFrom(s, NextParen(s, i + 1) + 1)
         ELSE <<s[i]>> \o StripInnerFrom(s, i + 1)

\* A substitution of r'\([^()]*\)': only the innermost spans removed.
RemoveInnermostParens(s) == StripInnerFrom(s, 1)

RECURSIVE StripFrom(_, _)
StripFrom(s, i) ==
    IF i > Len(s) THEN <<>>
    ELSE IF s[i] = "(" /\ IndexFrom(s, ")", i + 1) # 0
         THEN StripFrom(s, IndexFrom(s, ")", i + 1) + 1)
         ELSE <<s[i]>> \o StripFrom(s, i + 1)

\* re.sub(r'\([^)]*\)', '', s): every leftmost "(" ... first ")" span removed.
RemoveParens(s) == StripFrom(s, 1)

(***************************************************************************)
(* Mention Counter: process_wikipedia_articles_parallel                    *)
(***************************************************************************)

The == <<"T", "h", "e">>
OpenLink == <<"[", "[">>
CloseLink == <<"]", "]">>
Pipe == <<"|">>

\* name.split(' ', 1)[0]
FirstToken(name) == SplitOnce(name, " ")[1]

\* The split name with its first piece lower-cased, joined again by ' '.
NonCapitalized(name) ==
    LET parts == SplitOnce(name, " ")
    IN  Join(" ", <<Lower(parts[1])>> \o Tail(parts))

\* number_of_mentions_via_hyperlink once the candidate has been examined.
HyperlinkMentions(text, mentioned_artist) ==
    LET closed == StrCount(text, OpenLink \o mentioned_artist \o CloseLink)
        piped  == StrCount(text, OpenLink \o mentioned_artist \o Pipe)
        first  == closed + piped
    IN  IF FirstToken(mentioned_artist) = The
        THEN StrCount(text, OpenLink \o NonCapitalized(mentioned_artist) \o CloseLink)
             + StrCount(text, OpenLink \o mentioned_artist \o Pipe)
             + first
        ELSE first

\* clean_mentioned_artist
CleanName(mentioned_artist) == RemoveParens(mentioned_artist)

\* A count that leaves out the search for the lower-cased "the".
NumberOfMentionsPlainOnly(text, mentioned_artist) ==
    StrCount(text, CleanName(mentioned_artist))

\* number_of_mentions once the candidate has been examined.
NumberOfMentions(text, mentioned_artist) ==
    LET clean == CleanName(mentioned_artist)
        plain == StrCount(text, clean)
    IN  IF FirstToken(clean) = The
        THEN StrCount(text, NonCapitalized(clean)) + plain
        ELSE plain

\* A search loop without the test that skips the article's own artist.
SearchedAlways(artist_name, mentioned_artist) == TRUE

\* The candidate is searched for at all: it is not the article's own artist.
Searched(artist_name, mentioned_artist) == artist_name # mentioned_artist

\* A gate on the plain count instead of the hyperlink count.
GateOnPlainCount(text, mentioned_artist) == NumberOfMentions(text, mentioned_artist) > 0

\* A gate that compares with >= instead of >.
GateOffByOne(text, mentioned_artist) == HyperlinkMentions(text, mentioned_artist) >= 0

\* The gate that lets a searched candidate into the string.
GatePasses(text, mentioned_artist) == HyperlinkMentions(text, mentioned_artist) > 0

\* The candidate is written to mentioned_artists_string.
Emitted(artist_name, text, mentioned_artist) ==
    /\ Searched(artist_name, mentioned_artist)
    /\ GatePasses(text, mentioned_artist)

\* The text appended for one emitted candidate: "NAME:COUNT;".
TokenText(mentioned_artist, n) == mentioned_artist \o <<":">> \o Str(n) \o <<";">>

RECURSIVE MentionsFrom(_, _, _, _)
\* The (candidate, count) pairs written for the candidates from position i on.
MentionsFrom(artist_name, text, roster, i) ==
    IF i > Len(roster) THEN <<>>
    ELSE (IF Emitted(artist_name, text, roster[i])
          THEN <<<<roster[i], NumberOfMentions(text, roster[i])>>>>
          ELSE <<>>) \o MentionsFrom(artist_name, text, roster, i + 1)

Mentions(artist_name, text, roster) == MentionsFrom(artist_name, text, roster, 1)

RECURSIVE ConcatTokens(_)
ConcatTokens(pairs) ==
    IF Len(pairs) = 0 THEN <<>>
    ELSE TokenText(pairs[1][1], pairs[1][2]) \o ConcatTokens(Tail(pairs))

\* A return that keeps the last character.
KeepLast(s) == s

\* s[:-1]
DropLast(s) == IF Len(s) = 0 THEN s ELSE SubSeq(s, 1, Len(s) - 1)

\* The value of the dictionary the function returns for the article.
MentionedArtistsString(artist_name, text, roster) ==
    DropLast(ConcatTokens(Mentions(artist_name, text, roster)))

(***************************************************************************)
(* Names and article texts of the bounded model                            *)
(***************************************************************************)

NameBo == <<"B", "o">>
NameBoBand == <<"B", "o", " ", "(", "b", ")">>
NameTheK == <<"T", "h", "e", " ", "K">>
NameThem == <<"T", "h", "e", "m">>
NameSA == <<"S", ":", "A">>

CountNames == {NameBo, NameBoBand, NameTheK, NameThem}

\* The pieces article texts are made of: links in each markup form and
\* plain occurrences followed by different characters.
LinkBoBand == <<"[", "[", "B", "o", " ", "(", "b", ")", "]", "]">>
LinkBo == <<"[", "[", "B", "o", "]", "]">>
LinkTheK == <<"[", "[", "T", "h", "e", " ", "K", "]", "]">>
LinkLowerTheK == <<"[", "[", "t", "h", "e", " ", "K", "]", "]">>
PipedTheK == <<"[", "[", "T", "h", "e", " ", "K", "|", "k", "]", "]">>
PipedLowerTheK == <<"[", "[", "t", "h", "e", " ", "K", "|", "k", "]", "]">>
LinkThem == <<"[", "[", "T", "h", "e", "m", "]", "]">>
PipedBo == <<"[", "[", "B", "o", "|", "b", "]", "]">>
PlainBoTwice == <<" ", "B", "o", " ", "p", " ", "B", "o", ".">>
PlainLowerTheK == <<" ", "t", "h", "e", " ", "K", " ", "a", ".">>
PlainLowerThem == <<" ", "t", "h", "e", "m">>

Fragments ==
    {LinkBoBand, LinkBo, LinkTheK, LinkLowerTheK, PipedTheK, PipedLowerTheK,
     LinkThem, PipedBo, PlainBoTwice, PlainLowerTheK, PlainLowerThem}

\* The most fragments an article text is made of.
MaxFrags == 2

\* The most names of a roster.
MaxRoster == 3

RECURSIVE TextsUpTo(_)
TextsUpTo(n) ==
    IF n = 0 THEN {<<>>}
    ELSE LET prev == TextsUpTo(n - 1)
         IN  prev \cup {t \o f : t \in prev, f \in Fragments}

CountTexts == TextsUpTo(MaxFrags)

(***************************************************************************)
(* State                                                                   *)
(***************************************************************************)

VARIABLES
    artist_name,                \* the article's artist (counter)
    wikipedia_text,             \* the article's text (counter)
    full_artists_list,          \* the sorted roster (counter)
    next_candidate,             \* position of the search loop in the roster
    mentioned_artists_string,   \* the string built by the search loop
    returned_string,            \* the value returned for the article
    counter_pc,                 \* "off", "search" or "returned"
    csv_files,                  \* build: the number of CSV files of documents
    documents,                  \* build: the (name, text) pairs handed to pool.map
    processed_count,            \* build: the shared progress counter
    lock_holder,                \* build: the task holding the counter's lock, or 0
    task_pc,                    \* build: "queued", "started", "locked", "searching", "raised", "done"
    task_seen,                  \* build: the counter value each task printed
    progress_log,               \* build: the progress messages, in print order
    results,                    \* build: pool.map's list of returned dictionaries
    merge_next,                 \* build: position of the merge loop
    df_matrix,                  \* build: MENTIONED_ARTISTS of the matrix in memory
    matrix_file,                \* build: MENTIONED_ARTISTS of matrix.csv on disk
    build_pc,                   \* build: "off", "init", "read", "map", "merge", "raised", "interrupted" or "saved"
    table,                      \* extract: MENTIONED_ARTISTS by ARTIST_NAME, as read
    root_node,                  \* extract: the root artist
    depth,                      \* extract: the number of rounds asked for
    round,                      \* extract: the rounds done
    selected_artists_list,      \* extract: the selected artists
    related_artists_list,       \* extract: the artists found to mention a selected one
    pending,                    \* extract: selected artists the edge loop has yet to visit
    df_csv,                     \* extract: the records appended so far
    graph_file,                 \* extract: the records of the saved CSV
    extract_pc                  \* extract: "off", "expand", "emit", "raised" or "saved"

counterVars ==
    <<artist_name, wikipedia_text, next_candidate,
      mentioned_artists_string, returned_string, counter_pc>>

buildVars ==
    <<csv_files, documents, processed_count, lock_holder, task_pc, task_seen, progress_log,
      results, merge_next, df_matrix, matrix_file, build_pc>>

extractVars ==
    <<table, root_node, depth, round, selected_artists_list, related_artists_list,
      pending, df_csv, graph_file, extract_pc>>

vars == <<full_artists_list, counterVars, buildVars, extractVars>>

\* The value of a variable of a component that is not running.
None == <<"None">>

CounterOff ==
    /\ artist_name = None
    /\ wikipedia_text = None
    /\ next_candidate = 0
    /\ mentioned_artists_string = <<>>
    /\ returned_string = None
    /\ counter_pc = "off"

BuildOff ==
    /\ csv_files = 0
    /\ documents = <<>>
    /\ processed_count = 0
    /\ lock_holder = 0
    /\ task_pc = <<>>
    /\ task_seen = <<>>
    /\ progress_log = <<>>
    /\ results = <<>>
    /\ merge_next = 0
    /\ df_matrix = <<>>
    /\ matrix_file = <<>>
    /\ build_pc = "off"

ExtractOff ==
    /\ table = <<>>
    /\ root_node = None
    /\ depth = 0
    /\ round = 0
    /\ selected_artists_list = {}
    /\ related_artists_list = {}
    /\ pending = {}
    /\ df_csv = <<>>
    /\ graph_file = None
    /\ extract_pc = "off"

(***************************************************************************)
(* One call of process_wikipedia_articles_parallel, candidate by candidate *)
(***************************************************************************)

\* The call's arguments: an article and a sorted roster that holds its artist.
CountInit ==
    /\ artist_name \in CountNames
    /\ wikipedia_text \in CountTexts
    /\ \E roster \in SUBSET CountNames :
          /\ artist_name \in roster
          /\ Cardinality(roster) <= MaxRoster
          /\ full_artists_list = SortedSeq(roster)
    /\ next_candidate = 1
    /\ mentioned_artists_string = <<>>
    /\ returned_string = None
    /\ counter_pc = "search"
    /\ BuildOff
    /\ ExtractOff

\* One iteration of the search loop.
SearchCandidate ==
    /\ counter_pc = "search"
    /\ next_candidate <= Len(full_artists_list)
    /\ LET mentioned_artist == full_artists_list[next_candidate]
       IN  mentioned_artists_string' =
              IF Emitted(artist_name, wikipedia_text, mentioned_artist)
              THEN mentioned_artists_string
                   \o TokenText(mentioned_artist,
                                NumberOfMentions(wikipedia_text, mentioned_artist))
              ELSE mentioned_artists_string
    /\ next_candidate' = next_candidate + 1
    /\ UNCHANGED <<artist_name, wikipedia_text, full_artists_list,
                   returned_string, counter_pc, buildVars, extractVars>>

\* The return once the roster is exhausted.
ReturnMentions ==
    /\ counter_pc = "search"
    /\ next_candidate > Len(full_artists_list)
    /\ returned_string' = DropLast(mentioned_artists_string)
    /\ counter_pc' = "returned"
    /\ UNCHANGED <<artist_name, wikipedia_text, full_artists_list,
                   next_candidate, mentioned_artists_string, buildVars, extractVars>>

CountNext == SearchCandidate \/ ReturnMentions

SpecCount == CountInit /\ [][CountNext]_vars

(***************************************************************************)
(* The same call for an article about one arbitrary name: names with       *)
(* parentheses anywhere, nested or unbalanced                              *)
(***************************************************************************)

NameAlphabet == {"(", ")", " ", "a"}

\* The most characters of an arbitrary name.
MaxNameLen == 4

RECURSIVE NamesUpTo(_)
NamesUpTo(n) ==
    IF n = 1 THEN {<<c>> : c \in NameAlphabet}
    ELSE LET prev == NamesUpTo(n - 1)
         IN  prev \cup {Append(t, c) : t \in {u \in prev : Len(u) = n - 1},
                                       c \in NameAlphabet}

ParenNames == NamesUpTo(MaxNameLen)

\* Article texts that link to the name, closed or piped, or only hold its
\* clean form.
TextsAbout(name) ==
    {OpenLink \o name \o CloseLink,
     OpenLink \o name \o Pipe \o <<"a">> \o CloseLink,
     OpenLink \o name \o CloseLink \o <<" ">> \o CleanName(name) \o <<".">>,
     <<" ">> \o CleanName(name) \o <<".">>}

\* The call's arguments: the article of "Bo" and a roster of "Bo" and one
\* arbitrary name.
NamesInit ==
    /\ artist_name = NameBo
    /\ \E name \in ParenNames :
          /\ wikipedia_text \in TextsAbout(name)
          /\ full_artists_list = SortedSeq({NameBo, name})
    /\ next_candidate = 1
    /\ mentioned_artists_string = <<>>
    /\ returned_string = None
    /\ counter_pc = "search"
    /\ BuildOff
    /\ ExtractOff

SpecCountNames == NamesInit /\ [][CountNext]_vars


(***************************************************************************)
(* Matrix Builder: build_matrix                                            *)
(***************************************************************************)

BuildNames == {NameBo, NameBoBand, NameTheK}

\* float('nan'): what pd.read_csv makes of an empty WIKIPEDIA_TEXT cell.
NaN == <<"NaN">>

BuildTexts ==
    {NaN, LinkBo \o LinkBoBand, LinkBoBand \o PlainBoTwice,
     LinkLowerTheK \o PlainLowerTheK}

\* The most documents of a build.
MaxDocs == 2

\* mp.cpu_count(): the processes of the pool.
NumWorkers == 2

\* str(NaN): what astype(np.str) makes of an empty MENTIONED_ARTISTS cell.
NanString == <<"n", "a", "n">>

DocumentNames == {documents[i][1] : i \in 1..Len(documents)}

Tasks == 1..Len(documents)

Running == {i \in Tasks : task_pc[i] \in {"started", "locked", "searching"}}

\* The document sets of a build: one document per name, in file order;
\* none when there are no CSV files or the files have no rows.
DocumentSets ==
    UNION {{d \in [1..n -> BuildNames \X BuildTexts] :
               \A i, j \in 1..n : i # j => d[i][1] # d[j][1]} : n \in 0..MaxDocs}

\* main before initialize_matrix: the CSV files are written, matrix.csv is not.
BuildInit ==
    /\ documents \in DocumentSets
    /\ csv_files \in (IF documents = <<>> THEN {0, 1} ELSE {1})
    /\ full_artists_list = <<>>
    /\ processed_count = 0
    /\ lock_holder = 0
    /\ task_pc = [i \in Tasks |-> "queued"]
    /\ task_seen = [i \in Tasks |-> 0]
    /\ progress_log = <<>>
    /\ results = [i \in Tasks |-> None]
    /\ merge_next = 0
    /\ df_matrix = None
    /\ matrix_file = None
    /\ build_pc = "init"
    /\ CounterOff
    /\ ExtractOff

\* initialize_matrix: a row with an empty MENTIONED_ARTISTS for every artist,
\* saved to matrix.csv; with no artist, the header alone.
InitializeMatrix ==
    /\ build_pc = "init"
    /\ matrix_file' = [n \in DocumentNames |-> <<>>]
    /\ build_pc' = "read"
    /\ UNCHANGED <<documents, csv_files, processed_count, lock_holder, task_pc,
                   task_seen, progress_log, results, merge_next, df_matrix,
                   full_artists_list, counterVars, extractVars>>

\* build_matrix up to the pool: pd.concat of the files read, which raises
\* ValueError on an empty list, the matrix read back as strings, the sorted
\* roster and the shared counter.
ReadDocuments ==
    /\ build_pc = "read"
    /\ IF csv_files = 0
       THEN /\ build_pc' = "raised"
            /\ UNCHANGED <<df_matrix, full_artists_list, processed_count>>
       ELSE /\ build_pc' = "map"
            /\ df_matrix' = [n \in DOMAIN matrix_file |-> NanString]
            /\ full_artists_list' = SortedSeq(DocumentNames)
            /\ processed_count' = 1
    /\ UNCHANGED <<documents, csv_files, lock_holder, task_pc,
                   task_seen, progress_log, results, merge_next, matrix_file,
                   counterVars, extractVars>>

\* An idle process of the pool takes the next document of the list.
StartTask(i) ==
    /\ build_pc = "map"
    /\ task_pc[i] = "queued"
    /\ \A j \in 1..(i - 1) : task_pc[j] # "queued"
    /\ Cardinality(Running) < NumWorkers
    /\ task_pc' = [task_pc EXCEPT ![i] = "started"]
    /\ UNCHANGED <<documents, csv_files, processed_count, lock_holder, task_seen,
                   progress_log, results, merge_next, df_matrix, matrix_file, build_pc,
                   full_artists_list, counterVars, extractVars>>

\* A counter read without waiting for the lock.
LockIgnored == TRUE

\* processed_count.get_lock() can be acquired: no task holds it.
LockFree == lock_holder = 0

\* with processed_count.get_lock(): print the counter.
LockAndReport(i) ==
    /\ build_pc = "map"
    /\ task_pc[i] = "started"
    /\ LockFree
    /\ lock_holder' = i
    /\ task_seen' = [task_seen EXCEPT ![i] = processed_count]
    /\ progress_log' = Append(progress_log, <<i, processed_count>>)
    /\ task_pc' = [task_pc EXCEPT ![i] = "locked"]
    /\ UNCHANGED <<documents, csv_files, processed_count, results, merge_next, df_matrix,
                   matrix_file, build_pc, full_artists_list, counterVars, extractVars>>

\* processed_count.value += 1, and the lock is released.
IncrementAndRelease(i) ==
    /\ build_pc = "map"
    /\ task_pc[i] = "locked"
    /\ lock_holder = i
    /\ processed_count' = processed_count + 1
    /\ lock_holder' = 0
    /\ task_pc' = [task_pc EXCEPT ![i] = "searching"]
    /\ UNCHANGED <<documents, csv_files, task_seen, progress_log, results, merge_next,
                   df_matrix, matrix_file, build_pc, full_artists_list, counterVars, extractVars>>

\* A task that takes its artist from the position the counter gave it.
TaskArtistNameByCounter(i, seen) == documents[seen][1]

\* artist_name of task i; the counter value the task saw has no part in it.
TaskArtistName(i, seen) == documents[i][1]

\* wikipedia_text.count on a text that is NaN: AttributeError, at the first
\* candidate that is not the article's own artist.
TaskRaises(i) ==
    /\ documents[i][2] = NaN
    /\ \E k \in 1..Len(full_artists_list) : full_artists_list[k] # documents[i][1]

\* The dictionary task i returns: its artist and the string of its mentions.
TaskResult(i) ==
    <<TaskArtistName(i, task_seen[i]),
      MentionedArtistsString(TaskArtistName(i, task_seen[i]), documents[i][2],
                             full_artists_list)>>

\* The search of task i, and its return into pool.map's list or its exception.
FinishTask(i) ==
    /\ build_pc = "map"
    /\ task_pc[i] = "searching"
    /\ IF TaskRaises(i)
       THEN /\ task_pc' = [task_pc EXCEPT ![i] = "raised"]
            /\ UNCHANGED results
       ELSE /\ results' = [results EXCEPT ![i] = TaskResult(i)]
            /\ task_pc' = [task_pc EXCEPT ![i] = "done"]
    /\ UNCHANGED <<documents, csv_files, processed_count, lock_holder, task_seen,
                   progress_log, merge_next, df_matrix, matrix_file, build_pc,
                   full_artists_list, counterVars, extractVars>>

\* A map that hands over its list as soon as one task has returned.
SomeTaskReturned == \E i \in Tasks : task_pc[i] = "done"

\* Every task of the list has returned its dictionary.
AllTasksReturned == \A i \in Tasks : task_pc[i] = "done"

\* pool.map returns once every task has returned.
MapReturns ==
    /\ build_pc = "map"
    /\ AllTasksReturned
    /\ build_pc' = "merge"
    /\ merge_next' = 1
    /\ UNCHANGED <<documents, csv_files, processed_count, lock_holder, task_pc, task_seen,
                   progress_log, results, df_matrix, matrix_file,
                   full_artists_list, counterVars, extractVars>>

\* pool.map raises the exception of a task in build_matrix, which has no
\* handler: the run ends, with the tasks still running or after them.
MapRaises ==
    /\ build_pc = "map"
    /\ \E i \in Tasks : task_pc[i] = "raised"
    /\ build_pc' = "raised"
    /\ UNCHANGED <<documents, csv_files, processed_count, lock_holder, task_pc, task_seen,
                   progress_log, results, merge_next, df_matrix, matrix_file,
                   full_artists_list, counterVars, extractVars>>

\* The driving process is interrupted while it waits in pool.map or runs the
\* merge loop: the exception ends the run, the pool's tasks are abandoned.
Interrupt ==
    /\ build_pc \in {"map", "merge"}
    /\ build_pc' = "interrupted"
    /\ UNCHANGED <<documents, csv_files, processed_count, lock_holder, task_pc, task_seen,
                   progress_log, results, merge_next, df_matrix, matrix_file,
                   full_artists_list, counterVars, extractVars>>

\* df_matrix.loc[artist_name, 'MENTIONED_ARTISTS'] = mentioned_artists
MergeResult ==
    /\ build_pc = "merge"
    /\ merge_next <= Len(results)
    /\ df_matrix' = [df_matrix EXCEPT ![results[merge_next][1]] = results[merge_next][2]]
    /\ merge_next' = merge_next + 1
    /\ UNCHANGED <<documents, csv_files, processed_count, lock_holder, task_pc, task_seen,
                   progress_log, results, matrix_file, build_pc,
                   full_artists_list, counterVars, extractVars>>

\* df_matrix.to_csv once the merge loop is over.
SaveMatrix ==
    /\ build_pc = "merge"
    /\ merge_next > Len(results)
    /\ matrix_file' = df_matrix
    /\ build_pc' = "saved"
    /\ UNCHANGED <<documents, csv_files, processed_count, lock_holder, task_pc, task_seen,
                   progress_log, results, merge_next, df_matrix,
                   full_artists_list, counterVars, extractVars>>

BuildNext ==
    \/ InitializeMatrix
    \/ ReadDocuments
    \/ \E i \in Tasks : StartTask(i)
    \/ \E i \in Tasks : LockAndReport(i)
    \/ \E i \in Tasks : IncrementAndRelease(i)
    \/ \E i \in Tasks : FinishTask(i)
    \/ MapReturns
    \/ MapRaises
    \/ Interrupt
    \/ MergeResult
    \/ SaveMatrix

SpecBuild == BuildInit /\ [][BuildNext]_vars


(***************************************************************************)
(* Subgraph Extractor: main of build_graph_mentions_to_root.py             *)
(***************************************************************************)

ExtractNames == {NameBo, NameBoBand, NameSA}

\* The counts the rows of a table are written with.
RowCounts == {1, 12}

\* The most rounds asked for.
MaxDepth == 3

\* The (target, count) lists the Matrix Builder can write for an artist of a
\* roster: other artists of the roster, in sorted order.
RowEdgeLists(names, artist) ==
    UNION {LET ts == SortedSeq(targets)
           IN  {[k \in 1..Len(ts) |-> <<ts[k], w[k]>>] :
                   w \in [1..Len(ts) -> RowCounts]} :
           targets \in SUBSET (names \ {artist})}

\* The rows the Matrix Builder writes for them.
RowsAmong(names, artist) ==
    {DropLast(ConcatTokens(e)) : e \in RowEdgeLists(names, artist)}

RowsOf(artist) == RowsAmong(ExtractNames, artist)

\* The tables read for a roster: rows for some of its artists.
TablesOver(names) ==
    UNION {{t \in [artists -> UNION {RowsAmong(names, a) : a \in artists}] :
               \A a \in artists : t[a] \in RowsAmong(names, a)} :
           artists \in SUBSET names}

Tables == TablesOver(ExtractNames)

\* artists_list
ArtistsList == DOMAIN table

ExtractInit ==
    /\ table \in Tables
    /\ root_node \in ExtractNames
    /\ depth \in 1..MaxDepth
    /\ round = 0
    /\ selected_artists_list = {root_node}
    /\ related_artists_list = {}
    /\ pending = {}
    /\ df_csv = <<>>
    /\ graph_file = None
    /\ extract_pc = "expand"
    /\ full_artists_list = <<>>
    /\ CounterOff
    /\ BuildOff

\* A search that matches the name at the start of the row only.
ArtistsThatMentionFirst(selected_artist) ==
    {a \in DOMAIN table : MatchAt(table[a], selected_artist, 1)}

\* The ARTIST_NAME of the rows whose MENTIONED_ARTISTS matches
\* re.escape(selected_artist): the rows that hold the name as a substring.
ArtistsThatMention(selected_artist) ==
    {a \in ArtistsList : Contains(table[a], selected_artist)}

\* A search that looks for the root alone in every round.
RelatedOfRootOnly(selected, related) == related \cup ArtistsThatMention(root_node)

\* related_artists_list after the inner loop over the selected artists.
RelatedAfterRound(selected, related) ==
    related \cup UNION {ArtistsThatMention(a) : a \in selected}

\* A round that keeps only the artists it found.
SelectedReplaced(selected, related) == related

\* selected_artists_list after the round.
SelectedAfterRound(selected, related) == selected \cup related

\* One pass of the loop over range(0, depth).
ExpandRound ==
    /\ extract_pc = "expand"
    /\ round < depth
    /\ LET related == RelatedAfterRound(selected_artists_list, related_artists_list)
       IN  /\ related_artists_list' = related
           /\ selected_artists_list' = SelectedAfterRound(selected_artists_list, related)
    /\ round' = round + 1
    /\ UNCHANGED <<table, root_node, depth, pending, df_csv, graph_file, extract_pc,
                   full_artists_list, counterVars, buildVars>>

\* The loop over range(0, depth) is over; the edge loop starts.
StartEdges ==
    /\ extract_pc = "expand"
    /\ round = depth
    /\ pending' = selected_artists_list
    /\ extract_pc' = "emit"
    /\ UNCHANGED <<table, root_node, depth, round, selected_artists_list,
                   related_artists_list, df_csv, graph_file,
                   full_artists_list, counterVars, buildVars>>

\* related_artist.rsplit(":")[0] in selected_artists_list
TokenSelected(related_artist) == Split(related_artist, ":")[1] \in selected_artists_list

\* related_artist.rsplit(":")[1] does not exist: IndexError.
TokenRaises(related_artist) ==
    TokenSelected(related_artist) /\ Len(Split(related_artist, ":")) < 2

RECURSIVE RecordsFrom(_, _, _)
\* The records appended for the tokens of a row from position k on.
RecordsFrom(selected_artist, tokens, k) ==
    IF k > Len(tokens) THEN <<>>
    ELSE (IF TokenSelected(tokens[k])
          THEN <<<<selected_artist, Split(tokens[k], ":")[1], Split(tokens[k], ":")[2]>>>>
          ELSE <<>>) \o RecordsFrom(selected_artist, tokens, k + 1)

\* One pass of the edge loop: a selected artist that has a row, and its tokens.
EmitEdges(selected_artist) ==
    /\ extract_pc = "emit"
    /\ selected_artist \in pending
    /\ pending' = pending \ {selected_artist}
    /\ IF selected_artist \in ArtistsList
       THEN LET tokens == Split(table[selected_artist], ";")
            IN  IF \E k \in 1..Len(tokens) : TokenRaises(tokens[k])
                THEN /\ extract_pc' = "raised"
                     /\ UNCHANGED df_csv
                ELSE /\ df_csv' = df_csv \o RecordsFrom(selected_artist, tokens, 1)
                     /\ UNCHANGED extract_pc
       ELSE UNCHANGED <<df_csv, extract_pc>>
    /\ UNCHANGED <<table, root_node, depth, round, selected_artists_list,
                   related_artists_list, graph_file,
                   full_artists_list, counterVars, buildVars>>

\* df_csv.to_csv once the edge loop is over.
SaveGraph ==
    /\ extract_pc = "emit"
    /\ pending = {}
    /\ graph_file' = df_csv
    /\ extract_pc' = "saved"
    /\ UNCHANGED <<table, root_node, depth, round, selected_artists_list,
                   related_artists_list, pending, df_csv,
                   full_artists_list, counterVars, buildVars>>

ExtractNext ==
    \/ ExpandRound
    \/ StartEdges
    \/ \E a \in pending : EmitEdges(a)
    \/ SaveGraph

SpecExtract == ExtractInit /\ [][ExtractNext]_vars

(***************************************************************************)
(* The extractor on a table whose roster has names that hold the           *)
(* delimiters ":" and ";"                                                  *)
(***************************************************************************)

NameBoSemiK == <<"B", "o", ";", "K">>

DelimNames == {NameBo, NameSA, NameBoSemiK}

DelimInit ==
    /\ table \in TablesOver(DelimNames)
    /\ root_node \in DelimNames
    /\ depth \in 1..MaxDepth
    /\ round = 0
    /\ selected_artists_list = {root_node}
    /\ related_artists_list = {}
    /\ pending = {}
    /\ df_csv = <<>>
    /\ graph_file = None
    /\ extract_pc = "expand"
    /\ full_artists_list = <<>>
    /\ CounterOff
    /\ BuildOff

SpecExtractDelims == DelimInit /\ [][ExtractNext]_vars

(***************************************************************************)
(* Reading a row: the vocabulary of the properties                         *)
(***************************************************************************)

Digits == {"0", "1", "2", "3", "4", "5", "6", "7", "8", "9"}

IsDigits(s) == Len(s) >= 1 /\ \A k \in 1..Len(s) : s[k] \in Digits

DigitValue(c) == CHOOSE v \in 0..9 : Str(v) = <<c>>

RECURSIVE NatOf(_)
NatOf(s) == IF Len(s) = 0 THEN 0
            ELSE 10 * NatOf(SubSeq(s, 1, Len(s) - 1)) + DigitValue(s[Len(s)])

\* The ";"-separated pieces of a row.
RowTokens(row) == LET pieces == Split(row, ";") IN {pieces[k] : k \in 1..Len(pieces)}

\* tok is "T:n" for a decimal count n.
IsTokenFor(tok, T) ==
    /\ Len(tok) > Len(T) + 1
    /\ SubSeq(tok, 1, Len(T)) = T
    /\ tok[Len(T) + 1] = ":"
    /\ IsDigits(SubSeq(tok, Len(T) + 2, Len(tok)))

\* A set of tokens holds one for T.
HasTokenIn(toks, T) == \E tok \in toks : IsTokenFor(tok, T)

\* The count of T's token in a set of tokens that holds one.
WeightAmong(toks, T) ==
    LET tok == CHOOSE t \in toks : IsTokenFor(t, T)
    IN  NatOf(SubSeq(tok, Len(T) + 2, Len(tok)))

HasToken(row, T) == HasTokenIn(RowTokens(row), T)

WeightIn(row, T) == WeightAmong(RowTokens(row), T)

\* The name's first space-delimited token is exactly "The".
StartsWithThe(T) ==
    /\ Len(T) >= 3
    /\ SubSeq(T, 1, 3) = The
    /\ (Len(T) = 3 \/ T[4] = " ")

\* The name with its leading "The" lower-cased.
LowerThe(T) == <<"t">> \o Tail(T)

\* The text holds "[[T]]" or "[[T|", or the same with a leading "The" lower-cased.
HasHyperlinkOccurrence(text, T) ==
    \/ Contains(text, OpenLink \o T \o CloseLink)
    \/ Contains(text, OpenLink \o T \o Pipe)
    \/ /\ StartsWithThe(T)
       /\ \/ Contains(text, OpenLink \o LowerThe(T) \o CloseLink)
          \/ Contains(text, OpenLink \o LowerThe(T) \o Pipe)

\* The candidates the search loop is done with.
Examined == {full_artists_list[j] : j \in 1..(next_candidate - 1)}

(***************************************************************************)
(* Properties of the Mention Counter (SpecCount)                           *)
(***************************************************************************)

\* C1: a token for T is in the row returned for A only if A's text holds a
\* hyperlink-style occurrence of T; a candidate whose hyperlink count is 0
\* has no token, however often its clean name occurs.
C1_GateInvariant ==
    counter_pc = "returned" =>
        LET toks == RowTokens(returned_string)
        IN  /\ \A T \in CountNames :
                  HasTokenIn(toks, T) => HasHyperlinkOccurrence(wikipedia_text, T)
            /\ \A T \in Examined :
                  HyperlinkMentions(wikipedia_text, T) = 0 => ~HasTokenIn(toks, T)

C1_Witness ==
    /\ counter_pc = "returned"
    /\ \E T \in Examined :
          /\ T # artist_name
          /\ StrCount(wikipedia_text, CleanName(T)) >= 2
          /\ HyperlinkMentions(wikipedia_text, T) = 0
          /\ ~HasToken(returned_string, T)
    /\ \E T \in Examined : HasToken(returned_string, T)

\* C2: the row returned for an article never holds a token for the article's own
\* artist, even when the text links to that artist.
C2_NoSelfMention ==
    counter_pc = "returned" => ~HasToken(returned_string, artist_name)

C2_Witness ==
    /\ counter_pc = "returned"
    /\ Contains(wikipedia_text, OpenLink \o artist_name \o CloseLink)
    /\ returned_string # <<>>
    /\ ~HasToken(returned_string, artist_name)

\* The name ends in a parenthetical suffix: "Bo (b)".
EndsInParenSuffix(T) ==
    /\ Len(T) >= 4
    /\ T[Len(T)] = ")"
    /\ IndexFrom(T, "(", 1) > 2
    /\ T[IndexFrom(T, "(", 1) - 1] = " "

\* The name without its suffix and the space before it: "Bo".
BareName(T) == SubSeq(T, 1, IndexFrom(T, "(", 1) - 2)

\* C8: for a target whose name ends in a parenthetical suffix, the emitted
\* weight is the number of occurrences of the bare name in the text,
\* whatever character follows each occurrence.
\* Refuted: CleanName keeps the space before the suffix ("Bo "), so an
\* occurrence followed by anything but a space is not counted.
C8_WeightCountsBareName ==
    counter_pc = "returned" =>
        \A T \in Examined :
            (EndsInParenSuffix(T) /\ HasToken(returned_string, T)) =>
                WeightIn(returned_string, T) = StrCount(wikipedia_text, BareName(T))

\* C9: a target whose first token is exactly "The" passes the gate on a
\* "[[the ...]]" link and its weight is the count of the clean name plus the
\* count of the clean name with "the"; any other target passes only on
\* "[[T]]" or "[[T|" and its weight is the count of the clean name alone.
C9_TheVariant ==
    counter_pc = "returned" =>
        \A T \in Examined \ {artist_name} :
            LET clean == CleanName(T)
                toks == RowTokens(returned_string)
            IN  IF StartsWithThe(T)
                THEN /\ Contains(wikipedia_text, OpenLink \o LowerThe(T) \o CloseLink)
                            => HasTokenIn(toks, T)
                     /\ HasTokenIn(toks, T) =>
                            WeightAmong(toks, T) = StrCount(wikipedia_text, clean)
                                                   + StrCount(wikipedia_text, LowerThe(clean))
                ELSE /\ HasTokenIn(toks, T) <=>
                            \/ Contains(wikipedia_text, OpenLink \o T \o CloseLink)
                            \/ Contains(wikipedia_text, OpenLink \o T \o Pipe)
                     /\ HasTokenIn(toks, T) =>
                            WeightAmong(toks, T) = StrCount(wikipedia_text, clean)

\* The scenario: "[[the K]] the K a." read for the target "The K".
C9_Witness ==
    /\ counter_pc = "returned"
    /\ wikipedia_text = LinkLowerTheK \o PlainLowerTheK
    /\ artist_name # NameTheK
    /\ NameTheK \in Examined
    /\ HyperlinkMentions(wikipedia_text, NameTheK) = 1
    /\ HasToken(returned_string, NameTheK)
    /\ WeightIn(returned_string, NameTheK) = 2

\* C10 as stated: a text that never holds "[[" + T yields no nonzero count
\* for T.  Refuted: "[[the K]]" passes the gate of "The K".
C10_GateOnRawLinkOnly ==
    counter_pc = "returned" =>
        \A T \in Examined :
            ~Contains(wikipedia_text, OpenLink \o T) =>
                ~(HasToken(returned_string, T) /\ WeightIn(returned_string, T) > 0)

\* C10 (amended): a text that holds neither "[[" + T nor, for a target whose
\* first token is "The", "[[" + T with that token lower-cased yields no
\* token for T, however often T's clean name occurs unlinked.
C10_GateOnLinkOrLowerLink ==
    counter_pc = "returned" =>
        \A T \in Examined :
            ( /\ ~Contains(wikipedia_text, OpenLink \o T)
              /\ ~(StartsWithThe(T) /\ Contains(wikipedia_text, OpenLink \o LowerThe(T))) )
                => ~HasToken(returned_string, T)

C10_Witness ==
    /\ counter_pc = "returned"
    /\ \E T \in Examined \ {artist_name} :
          /\ ~Contains(wikipedia_text, OpenLink \o T)
          /\ ~Contains(wikipedia_text, OpenLink \o LowerThe(T))
          /\ StrCount(wikipedia_text, CleanName(T)) >= 2
          /\ ~HasToken(returned_string, T)

\* The sum of the four pattern counts for a target that starts with "The".
FourPatternSum(text, T) ==
    StrCount(text, OpenLink \o T \o CloseLink)
    + StrCount(text, OpenLink \o T \o Pipe)
    + StrCount(text, OpenLink \o LowerThe(T) \o CloseLink)
    + StrCount(text, OpenLink \o LowerThe(T) \o Pipe)

\* C18: for a target T whose first token is "The", the hyperlink evidence is
\* count("[[T]]") + count("[[T|") + count("[[t]]") + count("[[t|"), and T
\* has a token exactly when that sum is positive.
\* Refuted: the second count of the "The" branch searches "[[T|" again,
\* not "[[t|": "[[the K|k]]" alone gives evidence 0 and no token, and
\* each "[[The K|" counts twice.
C18_EvidenceIsFourPatternSum ==
    counter_pc = "returned" =>
        \A T \in Examined \ {artist_name} :
            StartsWithThe(T) =>
                /\ HyperlinkMentions(wikipedia_text, T) = FourPatternSum(wikipedia_text, T)
                /\ HasToken(returned_string, T) <=> FourPatternSum(wikipedia_text, T) > 0

\* C19: for every target that has a token, the weight written is at least
\* the hyperlink evidence computed for it.
\* Refuted: "[[The K|k]]" gives evidence 2, the piped link being counted
\* twice, and weight 1.
C19_WeightSubsumesEvidence ==
    counter_pc = "returned" =>
        LET toks == RowTokens(returned_string)
        IN  \A T \in Examined \ {artist_name} :
                HasTokenIn(toks, T) =>
                    WeightAmong(toks, T) >= HyperlinkMentions(wikipedia_text, T)

\* C13: the row returned is the empty string exactly when no target passed
\* the gate; otherwise every ";"-separated piece of it is a "target:count"
\* token of an examined target (so there is no empty piece and no leading
\* or trailing ";"), and no two pieces are tokens of the same target.
C13_RowShape ==
    counter_pc = "returned" =>
        LET pieces == Split(returned_string, ";")
            TargetsOf(k) == {T \in Examined : IsTokenFor(pieces[k], T)}
        IN  /\ returned_string = <<>> <=>
                  ~\E T \in Examined \ {artist_name} : GatePasses(wikipedia_text, T)
            /\ returned_string # <<>> =>
                  /\ returned_string[1] # ";"
                  /\ returned_string[Len(returned_string)] # ";"
                  /\ \A k \in 1..Len(pieces) : TargetsOf(k) # {}
                  /\ \A j, k \in 1..Len(pieces) :
                        j # k => TargetsOf(j) \cap TargetsOf(k) = {}

\* A row of two tokens.
C13_Witness ==
    /\ counter_pc = "returned"
    /\ Len(Split(returned_string, ";")) = 2
    /\ \E T, U \in Examined :
          /\ T # U
          /\ IsTokenFor(Split(returned_string, ";")[1], T)
          /\ IsTokenFor(Split(returned_string, ";")[2], U)

(***************************************************************************)
(* Properties of the Matrix Builder (SpecBuild)                            *)
(***************************************************************************)

\* The (source, target, count) triples a table holds.
TableEdges(tbl) ==
    UNION {LET toks == RowTokens(tbl[a])
           IN  {<<a, T, WeightAmong(toks, T)>> :
                   T \in {U \in BuildNames : HasTokenIn(toks, U)}} :
           a \in DOMAIN tbl}

\* The triples of the documents: for each document, the other artists of the
\* roster its own text links to, with the count found in its own text.
DocumentEdges ==
    UNION {LET name == documents[i][1]
               text == documents[i][2]
           IN  {<<name, T, NumberOfMentions(text, T)>> :
                   T \in {U \in DocumentNames \ {name} :
                             HyperlinkMentions(text, U) > 0}} :
           i \in Tasks}

\* Every token of every row of the table is the token of an edge.
OnlyEdgeTokens(tbl) ==
    \A a \in DOMAIN tbl : \A tok \in RowTokens(tbl[a]) :
        tok = <<>> \/ \E T \in BuildNames : IsTokenFor(tok, T)

\* C3: whatever the interleaving of the pool's tasks, the saved table holds
\* for each artist exactly the edges of that artist's own document, a
\* function of the document set alone; and each returned dictionary is keyed
\* by the artist of its own document, whatever counter value the task saw.
C3_ScheduleIndependent ==
    /\ build_pc # "off" =>
          \A i \in Tasks : results[i] # None => results[i][1] = documents[i][1]
    /\ build_pc = "saved" =>
          /\ TableEdges(matrix_file) = DocumentEdges
          /\ OnlyEdgeTokens(matrix_file)

\* The second document reported its progress first, and the table has edges.
C3_Witness ==
    /\ build_pc = "saved"
    /\ Len(documents) = 2
    /\ progress_log[1] = <<2, 1>>
    /\ task_seen[1] = 2
    /\ TableEdges(matrix_file) # {}

\* The documents whose mention counting failed.
FailedDocuments == {i \in Tasks : task_pc[i] = "raised"}

\* C14: a document whose mention counting fails (its text is missing) is
\* skipped and the build still completes: the build never ends raised
\* because of a task, and the saved table holds the edges of every other
\* document.
\* Refuted: pool.map raises the task's exception in build_matrix, which ends
\* the run before the merge and the save; matrix.csv keeps the empty rows
\* initialize_matrix wrote.
C14_FailureIsolated ==
    /\ (build_pc = "raised" /\ csv_files > 0) => FailedDocuments = {}
    /\ build_pc = "saved" =>
          \A i \in Tasks \ FailedDocuments :
              {e \in TableEdges(matrix_file) : e[1] = documents[i][1]}
                  = {e \in DocumentEdges : e[1] = documents[i][1]}

\* C16: a build given zero documents (no CSV files, or files without rows)
\* ends in failure and leaves no table persisted.
\* Refuted: initialize_matrix has saved the header-only matrix.csv before
\* pd.concat raises on no files; and with files that have no rows nothing
\* raises, and build_matrix saves the header-only table again.
C16_ZeroDocumentsFail ==
    (Len(documents) = 0 /\ build_pc \in {"raised", "saved"}) =>
        /\ build_pc = "raised"
        /\ matrix_file = None

\* matrix.csv holds no computed mentions: it is not written yet, or every
\* row is as initialize_matrix wrote it.
NothingPersisted ==
    \/ build_pc = "init"
    \/ \A n \in DOMAIN matrix_file : matrix_file[n] = <<>>

\* matrix.csv holds the computed mentions of every document.
EverythingPersisted ==
    \A i \in Tasks :
        /\ task_pc[i] = "done"
        /\ matrix_file[documents[i][1]] = results[i][2]

\* C21: in every state of a build matrix.csv holds the computed mentions of
\* no document or of every document; the merge loop and the write run only
\* when every task has returned; and a run that ends raised or interrupted
\* leaves no computed mentions on disk.
C21_AllOrNothing ==
    /\ build_pc # "off" => (NothingPersisted \/ EverythingPersisted)
    /\ build_pc \in {"merge", "saved"} => \A i \in Tasks : task_pc[i] = "done"
    /\ build_pc \in {"raised", "interrupted"} => NothingPersisted
    /\ build_pc = "saved" => EverythingPersisted

\* The run is interrupted with one task returned, mentions computed, and
\* another in flight.
C21_Witness ==
    /\ build_pc = "interrupted"
    /\ \E i, j \in Tasks :
          /\ task_pc[i] = "done"
          /\ results[i][2] # <<>>
          /\ task_pc[j] \in {"started", "locked", "searching"}
    /\ DOMAIN matrix_file = DocumentNames
    /\ NothingPersisted

\* The tasks that have printed the counter, and those that have incremented it.
ReportedTasks == {i \in Tasks : task_pc[i] \in {"locked", "searching", "done", "raised"}}

IncrementedTasks == {i \in Tasks : task_pc[i] \in {"searching", "done", "raised"}}

\* C22: the counter starts at 1 and never decreases; it is 1 plus the
\* number of tasks that have incremented it; the values the tasks have
\* reported are 1..k, each once, the k-th message showing k; and when every
\* task is over the counter is N + 1 for N documents.
C22_CounterNoLostUpdates ==
    /\ []((build_pc \in {"map", "merge", "saved", "interrupted"}
           \/ (build_pc = "raised" /\ csv_files > 0)) =>
             /\ processed_count = 1 + Cardinality(IncrementedTasks)
             /\ {task_seen[i] : i \in ReportedTasks} = 1..Cardinality(ReportedTasks)
             /\ Len(progress_log) = Cardinality(ReportedTasks)
             /\ \A k \in 1..Len(progress_log) : progress_log[k][2] = k
             /\ (\A i \in Tasks : task_pc[i] \in {"done", "raised"}) =>
                   processed_count = Len(documents) + 1)
    /\ [][processed_count' >= processed_count]_vars

\* Two documents, both tasks over, the second having reported first.
C22_Witness ==
    /\ build_pc = "map"
    /\ Len(documents) = 2
    /\ \A i \in Tasks : task_pc[i] \in {"done", "raised"}
    /\ task_seen = <<2, 1>>
    /\ processed_count = 3

(***************************************************************************)
(* Properties of the Subgraph Extractor (SpecExtract)                      *)
(***************************************************************************)

\* The row of X holds a token whose target is exactly A.
MentionsExactly(X, A) == X \in ArtistsList /\ HasToken(table[X], A)

RECURSIVE WithinHops(_)
\* The root and the artists with a chain of at most n mention edges to it.
WithinHops(n) ==
    IF n = 0 THEN {root_node}
    ELSE LET near == WithinHops(n - 1)
         IN  near \cup {X \in ArtistsList : \E A \in near : MentionsExactly(X, A)}

\* C4: an artist is selected only through tokens whose target is exactly a
\* selected artist, so every selected artist other than the root has a chain
\* of at most (rounds done) mention edges to the root; a name that is only a
\* substring of another target's name or of a count selects nobody.
\* Refuted: ArtistsThatMention searches the row for the name as a substring,
\* so root "Bo" selects an artist whose row is "Bo (b):1".
C4_SelectionSound ==
    extract_pc # "off" => selected_artists_list \subseteq WithinHops(round)

\* The records a table and a selection call for: one per token "T:w" of the
\* row of a selected artist S whose target T is selected.
QualifyingRecords ==
    {r \in (selected_artists_list \cap ArtistsList) \X selected_artists_list
           \X {Str(w) : w \in RowCounts} :
        \E tok \in RowTokens(table[r[1]]) :
            /\ IsTokenFor(tok, r[2])
            /\ SubSeq(tok, Len(r[2]) + 2, Len(tok)) = r[3]}

RecordsOf(csv) == {csv[k] : k \in 1..Len(csv)}

\* C5: the saved edge list is exactly the set of (S, T, w) with S selected
\* and in the table, "T:w" a token of S's row and T selected.
\* Refuted for a target whose name holds ":": TokenSelected reads "S:A:1" as
\* the target "S", and the edge to "S:A" is not written.
C5_EdgeFilterExact ==
    extract_pc = "saved" => RecordsOf(graph_file) = QualifyingRecords

RECURSIVE SelectionAfter(_)
\* <<selected, related>> after k rounds from the root.
SelectionAfter(k) ==
    IF k = 0 THEN <<{root_node}, {}>>
    ELSE LET before == SelectionAfter(k - 1)
             related == RelatedAfterRound(before[1], before[2])
         IN  <<SelectedAfterRound(before[1], related), related>>

\* selected(depth = k)
SelectedAtDepth(k) == SelectionAfter(k)[1]

\* C6: the selected set never loses an element from one round to the next,
\* the root is selected in every state, and the selection of depth k is
\* within the selection of depth k + 1.
C6_SelectionMonotone ==
    /\ [](extract_pc # "off" => root_node \in selected_artists_list)
    /\ []((extract_pc = "expand" /\ round = depth) =>
            /\ selected_artists_list = SelectedAtDepth(depth)
            /\ \A k \in 1..depth : SelectedAtDepth(k) \subseteq SelectedAtDepth(k + 1))
    /\ [][selected_artists_list \subseteq selected_artists_list']_vars

\* Two rounds that both added artists.
C6_Witness ==
    /\ extract_pc = "saved"
    /\ depth = 2
    /\ SelectedAtDepth(1) # {root_node}
    /\ selected_artists_list # SelectedAtDepth(1)
    /\ SelectedAtDepth(1) \subseteq selected_artists_list

\* C7: with a root that has no row, the extraction does not raise, the root
\* is selected, no record has the root as Source, and every selected artist
\* whose row mentions the root has a record with the root as Target.
\* Refuted for a root whose name holds ":": its token is read as another
\* target and the record is not written; the other three parts hold.
C7_RootWithoutRow ==
    (extract_pc # "off" /\ root_node \notin ArtistsList) =>
        /\ extract_pc # "raised"
        /\ root_node \in selected_artists_list
        /\ \A k \in 1..Len(df_csv) : df_csv[k][1] # root_node
        /\ extract_pc = "saved" =>
              \A S \in selected_artists_list :
                  MentionsExactly(S, root_node) =>
                      \E r \in RecordsOf(graph_file) : r[1] = S /\ r[2] = root_node

RECURSIVE EarlyExitAfter(_)
\* <<selected, related, stopped>> of the variant of the depth loop that
\* leaves the loop after the first round that adds no artist to selected.
EarlyExitAfter(k) ==
    IF k = 0 THEN <<{root_node}, {}, FALSE>>
    ELSE LET before == EarlyExitAfter(k - 1)
             related == before[2] \cup
                            {a \in ArtistsList :
                                \E sel \in before[1] : Contains(table[a], sel)}
             selected == before[1] \cup related
         IN  IF before[3] THEN before
             ELSE <<selected, related, selected = before[1]>>

\* The records the edge loop writes when run on the variant's selection.
EarlyExitRecords ==
    LET selected == EarlyExitAfter(depth)[1]
    IN  UNION {{<<S, Split(tok, ":")[1], Split(tok, ":")[2]>> :
                   tok \in {t \in RowTokens(table[S]) : Split(t, ":")[1] \in selected}} :
               S \in selected \cap ArtistsList}

\* C20: the extractor runs exactly depth rounds before the edge loop; a
\* round that adds no artist to selected is followed only by rounds that
\* add none; and the selection and the saved records are those of the
\* variant that leaves the depth loop at the first round without growth.
C20_EarlyExitEquivalent ==
    /\ [](extract_pc \in {"emit", "raised", "saved"} => round = depth)
    /\ [][(round' = round + 1 /\ selected_artists_list' = selected_artists_list) =>
             SelectedAfterRound(selected_artists_list',
                                RelatedAfterRound(selected_artists_list',
                                                  related_artists_list'))
                 = selected_artists_list']_vars
    /\ []((extract_pc = "emit" /\ pending = selected_artists_list) =>
             selected_artists_list = EarlyExitAfter(depth)[1])
    /\ [](extract_pc = "saved" => RecordsOf(graph_file) = EarlyExitRecords)

\* Three rounds asked for: the first adds artists, the second adds none (the
\* variant leaves the loop there), and records are saved.
C20_Witness ==
    /\ extract_pc = "saved"
    /\ depth = 3
    /\ round = 3
    /\ EarlyExitAfter(1)[1] # {root_node}
    /\ EarlyExitAfter(2)[3]
    /\ selected_artists_list = EarlyExitAfter(1)[1]
    /\ Len(graph_file) > 0

\* C23: every artist that has a row and a chain of at most d mention edges
\* to the root, each edge a target token of the previous artist's row, is
\* selected after d rounds, so is in the final selection for depth d; and
\* the related set never loses an artist from one round to the next.
C23_SelectionComplete ==
    /\ [](extract_pc # "off" => WithinHops(round) \subseteq selected_artists_list)
    /\ [][related_artists_list \subseteq related_artists_list']_vars

\* An artist two mention edges away from the root, and not one, is in the
\* final selection together with the artist between them.
C23_Witness ==
    /\ extract_pc = "saved"
    /\ depth >= 2
    /\ \E X \in WithinHops(2) \ WithinHops(1) :
          /\ X \in selected_artists_list
          /\ X \in related_artists_list
    /\ WithinHops(1) # {root_node}

(***************************************************************************)
(* Properties of the Mention Counter on arbitrary names (SpecCountNames)   *)
(***************************************************************************)

\* C11: whenever a token "T:n" is written to a row, n >= 1, also for a name
\* with a parenthesized span in the middle or at the start.
\* Refuted: the gate is on the hyperlink count and the weight is the count of
\* the clean name; for "a()a" the text "[[a()a]]" passes the gate and holds no
\* "aa", so the token "a()a:0" is written.
C11_CountAtLeastOne ==
    counter_pc = "returned" =>
        LET toks == RowTokens(returned_string)
        IN  \A T \in Examined :
                HasTokenIn(toks, T) => WeightAmong(toks, T) >= 1

\* C17: removing the parenthesized spans of a name and then removing again
\* gives what removing once gives, also for nested and unbalanced
\* parentheses; the weight written for the name is the count of that string.
C17_CleanNameIdempotent ==
    \A T \in Examined \ {artist_name} :
        /\ RemoveParens(CleanName(T)) = CleanName(T)
        /\ (counter_pc = "returned" /\ HasToken(returned_string, T)) =>
              WeightIn(returned_string, T)
                  = StrCount(wikipedia_text, RemoveParens(RemoveParens(T)))

\* A name with a "(" inside a span or a parenthesis left over, searched for
\* and written.
C17_Witness ==
    /\ counter_pc = "returned"
    /\ \E T \in Examined \ {artist_name} :
          /\ CleanName(T) # T
          /\ \/ Contains(CleanName(T), <<"(">>)
             \/ Contains(CleanName(T), <<")">>)
             \/ Contains(T, <<"(", "(">>)
          /\ HasToken(returned_string, T)

(***************************************************************************)
(* Properties of the extractor on names with delimiters (SpecExtractDelims)*)
(***************************************************************************)

\* The (target, weight) pairs of the records written for a source.
PairsFrom(csv, S) == {<<csv[k][2], csv[k][3]>> : k \in {j \in 1..Len(csv) : csv[j][1] = S}}

\* The (target, count) pairs of a list of edges, the count as written.
PairsOf(e) == {<<e[k][1], Str(e[k][2])>> : k \in 1..Len(e)}

\* C12: for every list of (target, count) edges the Matrix Builder writes as
\* a row, the extractor's reading of the row (split on ";", then on ":",
\* pieces 0 and 1) gives back the same (target, count) pairs, here those
\* whose target is selected, also for names that hold ":" or ";"; and the
\* reading never raises.
\* Refuted: "S:A:1" is read as target "S", and "Bo;K:1" as the tokens "Bo"
\* and "K:1".
C12_TableRoundTrip ==
    /\ extract_pc # "raised"
    /\ extract_pc = "saved" =>
          \A S \in selected_artists_list \cap ArtistsList :
              \A e \in RowEdgeLists(DelimNames, S) :
                  DropLast(ConcatTokens(e)) = table[S] =>
                      PairsFrom(graph_file, S) =
                          {p \in PairsOf(e) : p[1] \in selected_artists_list}

\* The token has no ":" separator.
Malformed(tok) == ~Contains(tok, <<":">>)

\* C15: a token without ":" in the row of a selected artist, also one whose
\* text is the name of a selected artist, is skipped: the extraction does
\* not raise, and every other token of the row whose target is selected has
\* its record in the saved list.
\* Refuted: a token whose text is a selected name passes the test on
\* rsplit(":")[0], and rsplit(":")[1] raises IndexError; nothing is saved.
C15_MalformedTokenSkipped ==
    /\ extract_pc # "raised"
    /\ extract_pc = "saved" =>
          \A S \in selected_artists_list \cap ArtistsList :
              LET tokens == Split(table[S], ";")
              IN  (\E k \in 1..Len(tokens) : Malformed(tokens[k])) =>
                      \A k \in 1..Len(tokens) :
                          (~Malformed(tokens[k]) /\ TokenSelected(tokens[k])) =>
                              <<S, Split(tokens[k], ":")[1], Split(tokens[k], ":")[2]>>
                                  \in RecordsOf(graph_file)

====
